---- MODULE Spec2Model ----
(***************************************************************************)
(* Model of kiloMIA/test-task: the package-level function Get             *)
(* (src/task.go) driven by the body of one t.Run case of TestGet           *)
(* (src/task_test.go), together with the test double MockGetter.           *)
(*                                                                         *)
(* Get, as the repository has it, is                                       *)
(*     func Get(ctx, getter, addresses, key) (string, error) {             *)
(*         return "", nil                                                  *)
(*     }                                                                   *)
(* It starts no goroutine, never calls getter.Get and never reads ctx.     *)
(* Time is counted in abstract units; a context created by                 *)
(* context.WithTimeout at time t with ttl d is done from time t + d on.    *)
(***************************************************************************)
EXTENDS Integers, Sequences, FiniteSets, TLC

\* ---------------------------------------------------------------- bounds
MaxLen == 3      \* longest address list tried
MaxDelay == 2    \* largest Response.Delay tried
MaxTtl == 2      \* largest timeout tried
MaxTime == 2     \* the clock stops here

\* ------------------------------------------------------- values and errors
Addrs == {"addr1", "addr2", "addr3"}
Keys == {"key1"}

\* Go's nil error
Nil == "<nil>"
\* errors.New("key not found"), MockGetter.Get's fallthrough
ErrKeyNotFound == "key not found"
\* the configured per-address error of the test table
ErrConnection == "connection error"
\* context.Canceled and context.DeadlineExceeded
Canceled == "context canceled"
DeadlineExceeded == "context deadline exceeded"

\* the value the test table configures for an address: addr2 -> value2
ValueOf(a) ==
  CASE a = "addr1" -> "value1"
    [] a = "addr2" -> "value2"
    [] a = "addr3" -> "value3"

\* type Response struct { Value string; Error error; Delay time.Duration }
Response(v, e, d) == [Value |-> v, Error |-> e, Delay |-> d]

\* the responses tried for one address and key: a success after any delay,
\* or an immediate failure (the test table delays successes only)
ResponsesFor(a) ==
  {Response(ValueOf(a), Nil, d) : d \in 0..MaxDelay}
    \cup {Response("", ErrConnection, 0)}

\* map[string]Response for one address: no key configured, or key1 configured
KeyMapsFor(a) ==
  {<<>>} \cup {[k \in Keys |-> r] : r \in ResponsesFor(a)}

\* map[string]map[string]Response: any subset of the addresses configured
ResponseMaps ==
  UNION {{m \in [S -> UNION {KeyMapsFor(a) : a \in S}] :
            \A a \in S : m[a] \in KeyMapsFor(a)} : S \in SUBSET Addrs}

\* []string of length at most MaxLen, duplicates allowed
AddressLists == UNION {[1..n -> Addrs] : n \in 0..MaxLen}

VARIABLES
  responses,    \* tt.responses, held by the MockGetter
  addresses,    \* tt.addresses
  key,          \* tt.key
  ttl,          \* tt.ttl
  pc,           \* position in the t.Run body: start, call, returned, done
  now,          \* the clock
  ctxDeadline,  \* the deadline of ctx, -1 before context.WithTimeout
  ctxErr,       \* ctx.Err()
  getAt,        \* the time Get was entered, -1 before the call
  value,        \* got
  err,          \* err
  calls         \* number of MockGetter.Get invocations per address

vars == <<responses, addresses, key, ttl, pc, now, ctxDeadline, ctxErr,
          getAt, value, err, calls>>

scenario == <<responses, addresses, key, ttl>>

\* ------------------------------------------------------------- MockGetter
\* the lookup of MockGetter.Get: the configured Response, or none
HasResponse(rs, address, k) ==
  /\ address \in DOMAIN rs
  /\ k \in DOMAIN rs[address]

\* errors.Is(e, target) for the unwrapped errors of this program
ErrorsIs(e, target) == e # Nil /\ e = target

\* What MockGetter.Get(ctx, address, k) returns when ctx has d time units
\* left at entry (d <= 0: already done) and nobody cancels ctx before its
\* deadline: the set of possible <<value, error, time after entry>>.  The
\* select of a delayed response takes whichever of time.After and ctx.Done
\* is ready first, either one when both are; a response without delay never
\* looks at ctx.
MockGetResults(rs, address, k, d) ==
  IF HasResponse(rs, address, k)
  THEN LET resp == rs[address][k]
           done == IF resp.Error # Nil
                   THEN <<"", resp.Error, resp.Delay>>
                   ELSE <<resp.Value, Nil, resp.Delay>>
           aborted == <<"", DeadlineExceeded, IF d > 0 THEN d ELSE 0>>
       IN  IF resp.Delay > 0
           THEN (IF resp.Delay <= d THEN {done} ELSE {})
                  \cup (IF d <= resp.Delay THEN {aborted} ELSE {})
           ELSE {done}
  ELSE {<<"", ErrKeyNotFound, 0>>}

\* ------------------------------------------------------------------- Init
Init ==
  /\ responses \in ResponseMaps
  /\ addresses \in AddressLists
  /\ key \in Keys
  /\ ttl \in 1..MaxTtl
  /\ pc = "start"
  /\ now = 0
  /\ ctxDeadline = -1
  /\ ctxErr = Nil
  /\ getAt = -1
  /\ value = ""
  /\ err = Nil
  /\ calls = [a \in Addrs |-> 0]

\* ---------------------------------------------------------------- actions
\* mock := NewMockGetter(tt.responses); var getter Getter = mock;
\* ctx, cancel := context.WithTimeout(context.Background(), tt.ttl)
Setup ==
  /\ pc = "start"
  /\ ctxDeadline' = now + ttl
  /\ pc' = "call"
  /\ UNCHANGED <<scenario, now, ctxErr, getAt, value, err, calls>>

\* Get as it would be if an empty address list were reported as an error
GetRejectsEmpty ==
  /\ pc = "call"
  /\ getAt' = now
  /\ value' = ""
  /\ err' = IF Len(addresses) = 0 THEN "no addresses" ELSE Nil
  /\ pc' = "returned"
  /\ UNCHANGED <<scenario, now, ctxDeadline, ctxErr, calls>>

\* Get as it would be if an attempt left behind wrote its result into the
\* returned variables after the return
GetLateWrite ==
  \/ /\ pc = "call"
     /\ getAt' = now
     /\ value' = ""
     /\ err' = Nil
     /\ pc' = "returned"
     /\ UNCHANGED <<scenario, now, ctxDeadline, ctxErr, calls>>
  \/ /\ pc = "returned"
     /\ \E a \in {addresses[i] : i \in DOMAIN addresses} :
          /\ HasResponse(responses, a, key)
          /\ value' = responses[a][key].Value
          /\ err' = responses[a][key].Error
          /\ calls' = [calls EXCEPT ![a] = @ + 1]
     /\ UNCHANGED <<scenario, pc, now, ctxDeadline, ctxErr, getAt>>

\* got, err := Get(ctx, getter, tt.addresses, tt.key)
Get ==
  /\ pc = "call"
  /\ getAt' = now
  /\ value' = ""
  /\ err' = Nil
  /\ pc' = "returned"
  /\ UNCHANGED <<scenario, now, ctxDeadline, ctxErr, calls>>

\* defer cancel(): the first of deadline and cancel fixes ctx.Err()
Cancel ==
  /\ pc = "returned"
  /\ ctxErr' = IF ctxErr = Nil THEN Canceled ELSE ctxErr
  /\ pc' = "done"
  /\ UNCHANGED <<scenario, now, ctxDeadline, getAt, value, err, calls>>

\* time passes; the timer of context.WithTimeout fires at the deadline
Tick ==
  /\ now < MaxTime
  /\ now' = now + 1
  /\ ctxErr' = IF ctxErr = Nil /\ ctxDeadline >= 0 /\ now + 1 >= ctxDeadline
               THEN DeadlineExceeded
               ELSE ctxErr
  /\ UNCHANGED <<scenario, pc, ctxDeadline, getAt, value, err, calls>>

Next == Setup \/ Get \/ Cancel \/ Tick

Spec == Init /\ [][Next]_vars

\* The test body is sequential code on a running goroutine and the clock
\* keeps going: every step that stays possible is eventually taken.
FairSpec ==
  /\ Spec
  /\ WF_vars(Setup)
  /\ WF_vars(Get)
  /\ WF_vars(Cancel)
  /\ WF_vars(Tick)

TypeOK ==
  /\ responses \in ResponseMaps
  /\ addresses \in AddressLists
  /\ pc \in {"start", "call", "returned", "done"}
  /\ now \in 0..MaxTime
  /\ ctxErr \in {Nil, Canceled, DeadlineExceeded}

\* ------------------------------------------- MockGetter.Get, step by step
\* A direct call getter.Get(ctx, addresses[1], key) on the MockGetter, with
\* ctx created at time 0 by context.WithTimeout(ttl); the caller may also
\* cancel ctx at any time.  pc is the position inside MockGetter.Get:
\* mock_entry (not yet entered), mock_select (blocked in the select of a
\* delayed response), mock_done (returned); value and err are what it
\* returned, getAt the time it was entered.
InitMock ==
  /\ responses \in ResponseMaps
  /\ addresses \in [1..1 -> Addrs]
  /\ key \in Keys
  /\ ttl \in 1..MaxTtl
  /\ pc = "mock_entry"
  /\ now = 0
  /\ ctxDeadline = ttl
  /\ ctxErr = Nil
  /\ getAt = -1
  /\ value = ""
  /\ err = Nil
  /\ calls = [a \in Addrs |-> 0]

\* the configured Response of the call, when there is one
MockResp == responses[addresses[1]][key]

\* lines 37-41: the configured error with no value, else the value
MockConfigured(resp) ==
  IF resp.Error # Nil THEN <<"", resp.Error>> ELSE <<resp.Value, Nil>>

\* MockGetter.Get as it would be if a missing key were reported as success
MockGetEnterNotFoundNil ==
  /\ pc = "mock_entry"
  /\ getAt' = now
  /\ calls' = [calls EXCEPT ![addresses[1]] = @ + 1]
  /\ IF HasResponse(responses, addresses[1], key)
     THEN IF MockResp.Delay > 0
          THEN pc' = "mock_select" /\ UNCHANGED <<value, err>>
          ELSE /\ pc' = "mock_done"
               /\ value' = MockConfigured(MockResp)[1]
               /\ err' = MockConfigured(MockResp)[2]
     ELSE pc' = "mock_done" /\ value' = "" /\ err' = Nil
  /\ UNCHANGED <<scenario, now, ctxDeadline, ctxErr>>

\* entry of MockGetter.Get: the two map lookups, then either the select of
\* a delayed response, or the configured result at once, or "key not found"
MockGetEnter ==
  /\ pc = "mock_entry"
  /\ getAt' = now
  /\ calls' = [calls EXCEPT ![addresses[1]] = @ + 1]
  /\ IF HasResponse(responses, addresses[1], key)
     THEN IF MockResp.Delay > 0
          THEN pc' = "mock_select" /\ UNCHANGED <<value, err>>
          ELSE /\ pc' = "mock_done"
               /\ value' = MockConfigured(MockResp)[1]
               /\ err' = MockConfigured(MockResp)[2]
     ELSE pc' = "mock_done" /\ value' = "" /\ err' = ErrKeyNotFound
  /\ UNCHANGED <<scenario, now, ctxDeadline, ctxErr>>

\* case <-time.After(resp.Delay): the delay has elapsed, the configured
\* result is returned
MockAfter ==
  /\ pc = "mock_select"
  /\ now >= getAt + MockResp.Delay
  /\ pc' = "mock_done"
  /\ value' = MockConfigured(MockResp)[1]
  /\ err' = MockConfigured(MockResp)[2]
  /\ UNCHANGED <<scenario, now, ctxDeadline, ctxErr, getAt, calls>>

\* the select as it would be if the ctx.Done case returned the configured
\* result instead of ctx.Err()
MockCtxDoneKeepsResult ==
  /\ pc = "mock_select"
  /\ ctxErr # Nil
  /\ pc' = "mock_done"
  /\ value' = MockConfigured(MockResp)[1]
  /\ err' = MockConfigured(MockResp)[2]
  /\ UNCHANGED <<scenario, now, ctxDeadline, ctxErr, getAt, calls>>

\* case <-ctx.Done(): return "", ctx.Err()
MockCtxDone ==
  /\ pc = "mock_select"
  /\ ctxErr # Nil
  /\ pc' = "mock_done"
  /\ value' = ""
  /\ err' = ctxErr
  /\ UNCHANGED <<scenario, now, ctxDeadline, ctxErr, getAt, calls>>

\* the caller cancels ctx while the call has not returned
CallerCancel ==
  /\ pc \in {"mock_entry", "mock_select"}
  /\ ctxErr = Nil
  /\ ctxErr' = Canceled
  /\ UNCHANGED <<scenario, pc, now, ctxDeadline, getAt, value, err, calls>>

NextMock == MockGetEnter \/ MockAfter \/ MockCtxDone \/ CallerCancel \/ Tick

SpecMock == InitMock /\ [][NextMock]_vars

\* ------------------------------------------------------------ vocabulary
\* Get has returned
Returned == pc \in {"returned", "done"}

\* the unique addresses of the list
Unique == {addresses[i] : i \in DOMAIN addresses}

\* the time ctx had left when Get was entered
Remaining == ctxDeadline - getAt

\* what an attempt for address a, started when Get was entered, can yield
Attempt(a) == MockGetResults(responses, a, key, Remaining)

\* the attempt for a succeeds strictly before the deadline
SucceedsInTime(a) ==
  \A r \in Attempt(a) : r[2] = Nil /\ r[3] < Remaining

\* the attempt for a fails, with its own error, strictly before the deadline
FailsInTime(a) ==
  \A r \in Attempt(a) :
    r[2] \notin {Nil, DeadlineExceeded, Canceled} /\ r[3] < Remaining

\* the attempt for a is still waiting for its delay when the deadline passes
PendingAtDeadline(a) ==
  /\ HasResponse(responses, a, key)
  /\ responses[a][key].Delay > 0
  /\ responses[a][key].Delay > Remaining

\* the value a successful attempt for a returns, and when
ValueFrom(a) == responses[a][key].Value
DelayOf(a) == responses[a][key].Delay

\* the error is one of the context's cancellation errors
IsCancellation(e) == ErrorsIs(e, Canceled) \/ ErrorsIs(e, DeadlineExceeded)

\* ----------------------------------------------------------------- claims
\* C1: for a non-empty address list in which some unique address's attempt
\* succeeds before the deadline, Get returns the value of a successful
\* attempt and a nil error.
C1_SuccessReturned ==
  (Returned /\ Len(addresses) > 0 /\ \E a \in Unique : SucceedsInTime(a))
    => /\ err = Nil
       /\ \E a \in Unique : SucceedsInTime(a) /\ value = ValueFrom(a)

\* C2: for a non-empty address list in which every unique address's attempt
\* fails before the deadline, Get returns an empty value and a non-nil error.
C2_AllFailedIsError ==
  (Returned /\ Len(addresses) > 0 /\ \A a \in Unique : FailsInTime(a))
    => (value = "" /\ err # Nil)

\* C3: if the deadline passes before any attempt has succeeded, some attempt
\* still pending, Get returns an empty value and an error that matches the
\* context's cancellation error, and it returns before the pending attempt
\* would have completed.
C3_DeadlineIsCancellation ==
  (/\ Returned
   /\ Len(addresses) > 0
   /\ \E a \in Unique : PendingAtDeadline(a)
   /\ \A a \in Unique : \A r \in Attempt(a) : r[2] # Nil)
    => /\ value = ""
       /\ err # Nil
       /\ IsCancellation(err)
       /\ \A a \in Unique : PendingAtDeadline(a) => getAt < getAt + DelayOf(a)

\* C4: with a timeout context that the caller has not canceled and a single
\* address whose attempt would succeed only after the timeout, Get returns an
\* empty value and an error that errors.Is matches with context.Canceled.
C4_TimeoutMatchesCanceled ==
  (/\ pc = "returned"
   /\ Len(addresses) = 1
   /\ PendingAtDeadline(addresses[1])
   /\ responses[addresses[1]][key].Error = Nil)
    => (value = "" /\ ErrorsIs(err, Canceled))

\* C5: with two addresses whose attempts both succeed, one strictly before
\* the other and both before the deadline, Get returns the value of the one
\* that completes first, with a nil error.
C5_FastestWins ==
  \A a, b \in Addrs :
    (/\ Returned
     /\ Unique = {a, b}
     /\ SucceedsInTime(a)
     /\ SucceedsInTime(b)
     /\ DelayOf(a) < DelayOf(b))
      => (value = ValueFrom(a) /\ err = Nil)

\* C6: with an empty address list Get returns the empty value and a nil
\* error in the step that enters it, and the fetch capability is not invoked.
C6_EmptyListVacuous ==
  (Returned /\ Len(addresses) = 0)
    => (value = "" /\ err = Nil /\ \A a \in Addrs : calls[a] = 0)

C6_Witness ==
  pc = "returned" /\ Len(addresses) = 0 /\ getAt = now

\* C7: the fetch capability is invoked at most once per unique address, and
\* when an address that is listed twice fails while another address succeeds
\* before the deadline, Get returns that success with a nil error.
C7_OncePerAddress ==
  /\ \A a \in Addrs : calls[a] <= 1
  /\ \A a \in Addrs :
       (/\ Returned
        /\ Cardinality({i \in DOMAIN addresses : addresses[i] = a}) > 1
        /\ FailsInTime(a)
        /\ \E b \in Unique : SucceedsInTime(b))
         => (err = Nil /\ \E b \in Unique : SucceedsInTime(b) /\ value = ValueFrom(b))

\* C8: for a non-empty address list Get returns either a non-empty value
\* with a nil error or an empty value with a non-nil error.
C8_ValueXorError ==
  (Returned /\ Len(addresses) > 0)
    => \/ (value # "" /\ err = Nil)
       \/ (value = "" /\ err # Nil)

\* C9: once Get has returned, the returned value and error never change,
\* the invocation stays returned, and the fetch capability is not invoked
\* again.
C9_OutcomeFinal ==
  [][Returned =>
       (Returned' /\ value' = value /\ err' = err /\ calls' = calls
          /\ getAt' = getAt)]_vars

C9_Witness ==
  pc = "done" /\ now > getAt /\ ctxErr = DeadlineExceeded

\* C10: Get returns an error for failed attempts only when no unique
\* address's attempt succeeds, and with three addresses of which two fail and
\* one succeeds before the deadline Get returns the success's value with a
\* nil error.
C10_FailuresAreNotFatal ==
  /\ (Returned /\ err # Nil /\ ~IsCancellation(err))
       => \A a \in Unique : ~SucceedsInTime(a)
  /\ \A a \in Addrs :
       (/\ Returned
        /\ Unique = Addrs
        /\ SucceedsInTime(a)
        /\ \A b \in Addrs \ {a} : FailsInTime(b))
         => (value = ValueFrom(a) /\ err = Nil)

\* C12: Get returns the winner's value without waiting for a slower attempt:
\* at the moment Get returns, with one address answering at once and another
\* still inside its delay, the returned value is the winner's, with a nil
\* error.
C12_NoWaitForLosers ==
  \A a, b \in Addrs :
    (/\ pc = "returned"
     /\ now = getAt
     /\ Unique = {a, b}
     /\ SucceedsInTime(a)
     /\ DelayOf(a) = 0
     /\ HasResponse(responses, b, key)
     /\ DelayOf(b) > 0)
      => (value = ValueFrom(a) /\ err = Nil /\ now < getAt + DelayOf(b))

\* C13: when two attempts finish at the same moment, the result of exactly
\* one of them is the Outcome, and after Get has returned no attempt is left
\* that was invoked and cannot complete.
C13_ExactlyOneDelivered ==
  \A a, b \in Addrs :
    (/\ Returned
     /\ a # b
     /\ Unique = {a, b}
     /\ SucceedsInTime(a)
     /\ SucceedsInTime(b)
     /\ DelayOf(a) = DelayOf(b))
      => /\ err = Nil
         /\ value \in {ValueFrom(a), ValueFrom(b)}
         /\ \A c \in Unique : calls[c] <= 1

\* C14: for a non-empty address list Get has invoked the fetch capability
\* once for every unique address by the time it waits for a result, hence by
\* the time it returns.
C14_AllDispatched ==
  (Returned /\ Len(addresses) > 0)
    => \A a \in Unique : calls[a] = 1

\* C15: every invocation eventually returns, and when the context is done
\* while an attempt is still inside its delay and no attempt succeeds, the
\* returned error is a cancellation error.
C15_TerminatesAndReportsCancel ==
  /\ <>Returned
  /\ []((/\ Returned
         /\ Len(addresses) > 0
         /\ \E a \in Unique : PendingAtDeadline(a)
         /\ \A a \in Unique : ~SucceedsInTime(a))
          => IsCancellation(err))

\* C16: the error returned when every attempt failed with its own error is
\* non-nil and is not a cancellation error, and the error returned when the
\* deadline passes with an attempt pending is a cancellation error.
C16_FailuresDistinguishable ==
  /\ (Returned /\ Len(addresses) > 0 /\ \A a \in Unique : FailsInTime(a))
       => (err # Nil /\ ~IsCancellation(err))
  /\ (/\ Returned
      /\ Len(addresses) > 0
      /\ \E a \in Unique : PendingAtDeadline(a)
      /\ \A a \in Unique : \A r \in Attempt(a) : r[2] # Nil)
       => (err # Nil /\ IsCancellation(err))

\* C17 as stated: whenever MockGetter.Get returns for a configured response
\* while ctx is done, it returns the empty value and ctx.Err(), also for a
\* response without delay and a context already done at entry.
C17_AlwaysCancellation ==
  [][(/\ pc # "mock_done"
      /\ pc' = "mock_done"
      /\ HasResponse(responses, addresses[1], key)
      /\ ctxErr # Nil)
       => (value' = "" /\ err' = ctxErr)]_vars

\* C17, amended: a delayed response that returns before its delay has
\* elapsed returns the empty value and ctx.Err() of a done context; a call
\* blocked in the select is never blocked once ctx is done; a response
\* without delay is returned as configured whatever the state of ctx.
C17_DelayedHonoursCancellation ==
  /\ [][(pc = "mock_select" /\ pc' = "mock_done"
           /\ now < getAt + MockResp.Delay)
          => (ctxErr # Nil /\ value' = "" /\ err' = ctxErr)]_vars
  /\ []((pc = "mock_select" /\ ctxErr # Nil) => ENABLED MockCtxDone)
  /\ [][(pc = "mock_entry" /\ pc' = "mock_done"
           /\ HasResponse(responses, addresses[1], key))
          => <<value', err'>> = MockConfigured(MockResp)]_vars

C17_Witness ==
  /\ pc = "mock_done"
  /\ HasResponse(responses, addresses[1], key)
  /\ MockResp.Delay > 0
  /\ MockResp.Error = Nil
  /\ now < getAt + MockResp.Delay
  /\ value = ""
  /\ err = Canceled

\* C18 as stated: MockGetter.Get returns the empty value and a non-nil error
\* when the address or the key is not configured, and otherwise the
\* configured error with the empty value, else the configured value with a
\* nil error.
C18_ConfiguredResult ==
  pc = "mock_done" =>
    IF HasResponse(responses, addresses[1], key)
    THEN <<value, err>> = MockConfigured(MockResp)
    ELSE value = "" /\ err # Nil

\* C18, amended: as stated, except that a response with a positive delay
\* may instead yield the empty value and the context's cancellation error.
C18_ConfiguredOrCancelled ==
  pc = "mock_done" =>
    IF HasResponse(responses, addresses[1], key)
    THEN \/ <<value, err>> = MockConfigured(MockResp)
         \/ /\ MockResp.Delay > 0
            /\ value = ""
            /\ err = ctxErr
            /\ IsCancellation(err)
    ELSE value = "" /\ err = ErrKeyNotFound

C18_Witness ==
  /\ pc = "mock_done"
  /\ HasResponse(responses, addresses[1], key)
  /\ MockResp.Delay > 0
  /\ value = ValueOf(addresses[1])
  /\ err = Nil
====
